---------------------------- MODULE Spec2Model ----------------------------
(***************************************************************************)
(* Model of crates/gpui/examples/picker.rs: the TextInput text buffer      *)
(* (selection, grapheme motion, UTF-8/UTF-16 offsets, IME replacement) and *)
(* the PickerExample search coordinator (dispatch, background filter,      *)
(* staleness check, commit, wrap-around selection).                        *)
(*                                                                         *)
(* A string is a sequence of characters; a character is named by a string  *)
(* and carries the widths the code reads from it.  All offsets of the text *)
(* buffer are byte offsets, as in the source.                              *)
(***************************************************************************)
EXTENDS Integers, Sequences, FiniteSets

VARIABLES
    text_input,          \* the TextInput entity: content, selected_range, selection_reversed, is_selecting
    needs_search_update, \* PickerExample.needs_search_update
    filtered_items,      \* PickerExample.filtered_items
    selected_index,      \* PickerExample.selected_index
    search_task,         \* PickerExample.search_task: None or Some(id of the task held)
    cancel_flag,         \* PickerExample.cancel_flag: which AtomicBool the field points to
    search_count,        \* PickerExample.search_count (AtomicUsize)
    last_query,          \* PickerExample.last_query
    flags,               \* the AtomicBool cells ever allocated, by allocation number
    tasks,               \* the spawned search tasks, by search_id
    picker_alive,        \* whether the PickerExample entity still exists
    committed,           \* history: the search ids whose results were committed, in order
    hist,                \* history: the calls made so far (op, arg, ret), kept where a property needs them
    origin               \* history: the state the recorded calls started from

vars == <<text_input, needs_search_update, filtered_items, selected_index, search_task,
          cancel_flag, search_count, last_query, flags, tasks, picker_alive,
          committed, hist, origin>>

picker_vars == <<needs_search_update, filtered_items, selected_index, search_task,
                 cancel_flag, search_count, last_query, flags, tasks, picker_alive, committed>>

\* Option<T>: None, or Some(x) holding x
None == <<>>
Some(x) == <<x>>
unwrap(opt) == opt[1]

-----------------------------------------------------------------------------
(* Bounds of the model.                                                    *)

\* longest content, in characters, the text buffer is driven to
MaxLen == 2
\* longest content, in characters, typed into the picker's input
MaxQueryLen == 2
\* number of searches dispatched in one run
MaxSearches == 2
\* number of caret motions in a row recorded by MotionSpec
MaxOps == 2
\* number of list navigation calls in a row recorded by NavSpec
MaxNavOps == 3
\* how far past the end of the content an offset is taken
MaxBeyond == 2

-----------------------------------------------------------------------------
(* Characters.  ACUTE is U+0301 (combining acute accent), EURO is U+20AC,  *)
(* EMOJI is U+1F44D and TONE is U+1F3FD (an emoji modifier).               *)

Alphabet == {"a", "n", "A", "ACUTE", "EURO", "EMOJI", "TONE"}

len_utf8(ch) ==
    CASE ch = "ACUTE" -> 2
      [] ch = "EURO" -> 3
      [] ch \in {"EMOJI", "TONE"} -> 4
      [] OTHER -> 1

len_utf16(ch) == IF ch \in {"EMOJI", "TONE"} THEN 2 ELSE 1

\* Grapheme_Cluster_Break = Extend: never the first character of a cluster
\* unless it starts the text (rules GB1 and GB9 of UAX #29).
is_extend(ch) == ch \in {"ACUTE", "TONE"}

char_to_lowercase(ch) ==
    CASE ch = "A" -> "a"
      [] ch = "N" -> "n"
      [] OTHER -> ch

\* str::to_lowercase: character by character for the characters modelled
to_lowercase(s) == [i \in 1..Len(s) |-> char_to_lowercase(s[i])]

RECURSIVE byte_len(_)
\* str::len: the length in bytes
byte_len(s) == IF s = <<>> THEN 0 ELSE len_utf8(Head(s)) + byte_len(Tail(s))

\* the byte offset at which character number k+1 starts (k = Len(s): the end)
offset_of(s, k) == byte_len(SubSeq(s, 1, k))

\* str::is_char_boundary
is_char_boundary(s, b) == \E k \in 0..Len(s) : offset_of(s, k) = b

char_index(s, b) == CHOOSE k \in 0..Len(s) : offset_of(s, k) = b

\* &s[a..b]; Rust panics unless a <= b and both are character boundaries
slice_ok(s, a, b) == a <= b /\ is_char_boundary(s, a) /\ is_char_boundary(s, b)
str_slice(s, a, b) == SubSeq(s, char_index(s, a) + 1, char_index(s, b))

\* a prefix test in place of a substring test
contains_prefix(s, pat) == Len(pat) <= Len(s) /\ SubSeq(s, 1, Len(pat)) = pat

\* str::contains(pattern)
contains(s, pat) ==
    \E i \in 0..Len(s) : i + Len(pat) <= Len(s) /\ SubSeq(s, i + 1, i + Len(pat)) = pat

\* grapheme_indices(true): the byte offsets at which the clusters start
grapheme_indices(s) ==
    {offset_of(s, k) : k \in {j \in 0..(Len(s) - 1) : j = 0 \/ ~is_extend(s[j + 1])}}

\* the grapheme-cluster boundaries of s: the cluster starts and the end
grapheme_boundaries(s) == grapheme_indices(s) \cup {byte_len(s)}

Max(S) == CHOOSE x \in S : \A y \in S : y <= x
Min(S) == CHOOSE x \in S : \A y \in S : x <= y

Range(a, b) == [start |-> a, end |-> b]
is_empty(r) == r.start >= r.end

-----------------------------------------------------------------------------
(* TextInput: the operations as functions of the entity's fields.          *)

TextInput_new ==
    [content |-> <<>>, selected_range |-> Range(0, 0),
     selection_reversed |-> FALSE, is_selecting |-> FALSE]

move_to(t, offset) == [t EXCEPT !.selected_range = Range(offset, offset)]

cursor_offset(t) ==
    IF t.selection_reversed THEN t.selected_range.start ELSE t.selected_range.end

\* the bounds put in order without the flag being flipped
select_to_no_flip(t, offset) ==
    LET r == IF t.selection_reversed
             THEN Range(offset, t.selected_range.end)
             ELSE Range(t.selected_range.start, offset)
    IN IF r.end < r.start
       THEN [t EXCEPT !.selected_range = Range(r.end, r.start)]
       ELSE [t EXCEPT !.selected_range = r]

select_to(t, offset) ==
    LET r == IF t.selection_reversed
             THEN Range(offset, t.selected_range.end)
             ELSE Range(t.selected_range.start, offset)
    IN IF r.end < r.start
       THEN [t EXCEPT !.selection_reversed = ~t.selection_reversed,
                      !.selected_range = Range(r.end, r.start)]
       ELSE [t EXCEPT !.selected_range = r]

RECURSIVE from_utf16_scan(_, _, _, _, _)
from_utf16_scan(s, i, utf8_offset, utf16_count, offset) ==
    IF i > Len(s) \/ utf16_count >= offset
    THEN utf8_offset
    ELSE from_utf16_scan(s, i + 1, utf8_offset + len_utf8(s[i]),
                         utf16_count + len_utf16(s[i]), offset)

\* the UTF-16 offset taken for a byte offset, clamped to the content
offset_from_utf16_as_bytes(s, offset) == IF offset < byte_len(s) THEN offset ELSE byte_len(s)

offset_from_utf16(s, offset) == from_utf16_scan(s, 1, 0, 0, offset)

RECURSIVE to_utf16_scan(_, _, _, _, _)
to_utf16_scan(s, i, utf16_offset, utf8_count, offset) ==
    IF i > Len(s) \/ utf8_count >= offset
    THEN utf16_offset
    ELSE to_utf16_scan(s, i + 1, utf16_offset + len_utf16(s[i]),
                       utf8_count + len_utf8(s[i]), offset)

offset_to_utf16(s, offset) == to_utf16_scan(s, 1, 0, 0, offset)

range_to_utf16(s, r) == Range(offset_to_utf16(s, r.start), offset_to_utf16(s, r.end))

range_from_utf16(s, r) == Range(offset_from_utf16(s, r.start), offset_from_utf16(s, r.end))

previous_boundary(s, offset) ==
    LET below == {idx \in grapheme_indices(s) : idx < offset}
    IN IF below = {} THEN 0 ELSE Max(below)

\* next_boundary with the comparison >= in place of >
next_boundary_inclusive(s, offset) ==
    LET above == {idx \in grapheme_indices(s) : idx >= offset}
    IN IF above = {} THEN byte_len(s) ELSE Min(above)

next_boundary(s, offset) ==
    LET above == {idx \in grapheme_indices(s) : idx > offset}
    IN IF above = {} THEN byte_len(s) ELSE Min(above)

\* the step to the previous boundary taken also from a non-empty selection
left_always_steps(t) == move_to(t, previous_boundary(t.content, cursor_offset(t)))

left(t) ==
    IF is_empty(t.selected_range)
    THEN move_to(t, previous_boundary(t.content, cursor_offset(t)))
    ELSE move_to(t, t.selected_range.start)

right(t) ==
    IF is_empty(t.selected_range)
    THEN move_to(t, next_boundary(t.content, t.selected_range.end))
    ELSE move_to(t, t.selected_range.end)

\* the move to 0 left out
select_all_no_move(t) == select_to(t, byte_len(t.content))

select_all(t) == select_to(move_to(t, 0), byte_len(t.content))

\* the byte range a replacement acts on: the given UTF-16 range, or the selection
replaced_range(t, range_utf16) ==
    IF range_utf16 = None THEN t.selected_range
    ELSE range_from_utf16(t.content, unwrap(range_utf16))

\* the two slices of a replacement are taken without a panic
can_replace(t, range_utf16) ==
    LET range == replaced_range(t, range_utf16)
    IN /\ slice_ok(t.content, 0, range.start)
       /\ slice_ok(t.content, range.end, byte_len(t.content))

spliced(t, range, new_text) ==
    str_slice(t.content, 0, range.start) \o new_text
        \o str_slice(t.content, range.end, byte_len(t.content))

\* the notification sent between the two writes
replace_text_in_range_notify_early(t, range_utf16, new_text) ==
    LET range == replaced_range(t, range_utf16)
        at == range.start + byte_len(new_text)
        t1 == [t EXCEPT !.content = spliced(t, range, new_text)]
        t2 == [t1 EXCEPT !.selected_range = Range(at, at)]
    IN <<[effect |-> "write", fields |-> t1],
         [effect |-> "notify", fields |-> t1],
         [effect |-> "write", fields |-> t2]>>

\* the statements of replace_text_in_range in their order: the write of
\* content, the write of selected_range, cx.notify(), each with the fields of
\* the entity as they are after it
replace_text_in_range_effects(t, range_utf16, new_text) ==
    LET range == replaced_range(t, range_utf16)
        at == range.start + byte_len(new_text)
        t1 == [t EXCEPT !.content = spliced(t, range, new_text)]
        t2 == [t1 EXCEPT !.selected_range = Range(at, at)]
    IN <<[effect |-> "write", fields |-> t1],
         [effect |-> "write", fields |-> t2],
         [effect |-> "notify", fields |-> t2]>>

replace_text_in_range(t, range_utf16, new_text) ==
    LET range == replaced_range(t, range_utf16)
        at == range.start + byte_len(new_text)
    IN [t EXCEPT !.content = spliced(t, range, new_text),
                 !.selected_range = Range(at, at)]

replace_and_mark_text_in_range(t, range_utf16, new_text, new_selected_range_utf16) ==
    LET range == replaced_range(t, range_utf16)
        new_content == spliced(t, range, new_text)
        at == range.start + byte_len(new_text)
        new_range == range_from_utf16(new_content, unwrap(new_selected_range_utf16))
    IN [t EXCEPT !.content = new_content,
                 !.selected_range =
                     IF new_selected_range_utf16 = None THEN Range(at, at)
                     ELSE Range(new_range.start + range.start, new_range.end + range.end)]

\* the extension of an empty selection left out
backspace_no_extend(t) == replace_text_in_range(t, None, <<>>)

backspace(t) ==
    LET u == IF is_empty(t.selected_range)
             THEN select_to(t, previous_boundary(t.content, cursor_offset(t)))
             ELSE t
    IN replace_text_in_range(u, None, <<>>)

delete(t) ==
    LET u == IF is_empty(t.selected_range)
             THEN select_to(t, next_boundary(t.content, cursor_offset(t)))
             ELSE t
    IN replace_text_in_range(u, None, <<>>)

on_mouse_down(t, shift, index) ==
    LET u == [t EXCEPT !.is_selecting = TRUE]
    IN IF shift THEN select_to(u, index) ELSE move_to(u, index)

on_mouse_up(t) == [t EXCEPT !.is_selecting = FALSE]

on_mouse_move(t, index) == IF t.is_selecting THEN select_to(t, index) ELSE t

-----------------------------------------------------------------------------
(* PickerExample: the candidates, the background filter, the tasks.         *)

apple == <<"a", "p", "p", "l", "e">>
banana == <<"b", "a", "n", "a", "n", "a">>
grape == <<"g", "r", "a", "p", "e">>

\* the candidate list fixed at construction: the three candidates of the
\* specification's scenario stand for the thirty paths of the example
all_items == <<apple, banana, grape>>

RECURSIVE filter_items(_, _)
\* all_items.into_iter().filter(|item| item.to_lowercase().contains(&query)).collect()
filter_items(items, query) ==
    IF items = <<>> THEN <<>>
    ELSE (IF contains(to_lowercase(Head(items)), query) THEN <<Head(items)>> ELSE <<>>)
             \o filter_items(Tail(items), query)

\* the scan left out: every candidate is returned
search_matches_unfiltered(cancelled, items, query) == IF cancelled THEN <<>> ELSE items

\* the fast exit taken when the flag is NOT set
search_matches_flag_inverted(cancelled, items, query) ==
    IF ~cancelled THEN <<>>
    ELSE IF query = <<>> THEN items
    ELSE filter_items(items, query)

\* the value of the background closure, given what it read from its flag
search_matches(cancelled, items, query) ==
    IF cancelled THEN <<>>
    ELSE IF query = <<>> THEN items
    ELSE filter_items(items, query)

saturating_sub(a, b) == IF a >= b THEN a - b ELSE 0

\* the comparison left out: every notification dispatches
query_unchanged_never(query, last) == FALSE

\* "if query == self.last_query": nothing to do
query_unchanged(query, last) == query = last

\* the test one generation too lenient
is_superseded_off_by_one(search_id, current_search_count) ==
    search_id + 1 < saturating_sub(current_search_count, 1)

\* the comparison the wrong way round
is_superseded_reversed(search_id, current_search_count) ==
    search_id > saturating_sub(current_search_count, 1)

\* no test at all
is_superseded_never(search_id, current_search_count) == FALSE

\* every result taken for stale
is_superseded_always(search_id, current_search_count) == TRUE

\* the staleness test of the foreground continuation
is_superseded(search_id, current_search_count) ==
    search_id < saturating_sub(current_search_count, 1)

SearchIds == 0..(MaxSearches - 1)

\* A search task is "none" (not spawned), "spawned" (its background closure,
\* which owns query and the flag, has not run), "bg_done" (the closure returned
\* matches, the continuation has not run), "lost" (the closure will never
\* return), or finished as "committed", "discarded" or "update_failed"; what a
\* closure or a task owned is dropped when it ends.
NoTask == [state |-> "none", query |-> <<>>, cancel_flag |-> 0, matches |-> <<>>]

Finished(outcome) == [NoTask EXCEPT !.state = outcome]

\* the Task handle of search i is no longer held: search_task was overwritten
\* by a newer dispatch, or the entity holding it was released
dropped(i) == tasks[i].state # "none" /\ (search_task # Some(i) \/ ~picker_alive)

\* the counter after fetch_add(1), whose return value is the counter before
fetch_add_nothing(count) == count

fetch_add(count) == count + 1

\* the cells after the store to one of them, with the store left out
store_nothing(cells, cell, value) == cells

\* AtomicBool::store on one of the cells
store(cells, cell, value) == [cells EXCEPT ![cell] = value]

\* the closure given to picker.update, with the index left as it was
commit_update_keeping_index(matches, index) ==
    [filtered_items |-> matches, selected_index |-> index]

\* the closure given to picker.update: what it writes to the picker
commit_update(matches, index) == [filtered_items |-> matches, selected_index |-> 0]

\* the index stepping past the last item
select_next_no_wrap(index, items) == IF items # <<>> THEN index + 1 ELSE index

select_next(index, items) ==
    IF items # <<>> THEN (index + 1) % Len(items) ELSE index

\* no wrap-around at the first item
select_prev_saturating(index, items) == IF index = 0 THEN 0 ELSE index - 1

select_prev(index, items) ==
    IF items # <<>>
    THEN (IF index = 0 THEN Len(items) - 1 ELSE index - 1)
    ELSE index

\* the first item, whatever the index
confirm_first(index, items) == IF items # <<>> THEN Some(items[1]) ELSE None

\* filtered_items.get(selected_index)
confirm(index, items) == IF index < Len(items) THEN Some(items[index + 1]) ELSE None

-----------------------------------------------------------------------------
(* The program: PickerExample observing its TextInput, its search tasks     *)
(* and the background executor.                                             *)

\* the characters typed into the picker's input; here the input is driven by
\* typing and clearing (and by select-all in SelectionSpec: the coordinator
\* reads the content only), and every handler of TextInput is driven in the
\* specifications of the text buffer below
QueryAlphabet == {"a", "N"}

\* PickerExample::new: the fields of the search coordinator
CoordinatorInit ==
    /\ needs_search_update = FALSE
    /\ search_task = None
    /\ cancel_flag = 0
    /\ search_count = 0
    /\ last_query = <<>>
    /\ flags = [f \in 0..MaxSearches |-> FALSE]
    /\ tasks = [i \in SearchIds |-> NoTask]
    /\ picker_alive = TRUE
    /\ committed = <<>>

\* PickerExample::new, but for the text input
PickerInit ==
    /\ filtered_items = all_items
    /\ selected_index = 0
    /\ CoordinatorInit

Init ==
    /\ text_input = TextInput_new
    /\ PickerInit
    /\ hist = <<>>
    /\ origin = None

\* a TextInput handler that ends in cx.notify(): the observer registered in
\* PickerExample::new marks the picker for a search update
Input(t) ==
    /\ picker_alive
    /\ Len(t.content) <= MaxQueryLen
    /\ text_input' = t
    /\ needs_search_update' = TRUE
    /\ hist' = <<>>
    /\ UNCHANGED <<filtered_items, selected_index, search_task, cancel_flag, search_count,
                   last_query, flags, tasks, picker_alive, committed, origin>>

SelectAll == Input(select_all(text_input))

\* typed text arrives through the input handler, replacing the selection
Type ==
    \E ch \in QueryAlphabet :
        /\ can_replace(text_input, None)
        /\ Input(replace_text_in_range(text_input, None, <<ch>>))

\* PickerExample::cancel writes the input's fields and notifies
Cancel ==
    Input([text_input EXCEPT !.content = <<>>, !.selected_range = Range(0, 0)])

\* render with needs_search_update set, check_and_update_search returning at
\* "if query == self.last_query"
RenderUnchanged ==
    /\ picker_alive
    /\ needs_search_update
    /\ query_unchanged(to_lowercase(text_input.content), last_query)
    /\ needs_search_update' = FALSE
    /\ hist' = <<[op |-> "check_and_update_search", ret |-> "unchanged"]>>
    /\ UNCHANGED <<text_input, filtered_items, selected_index, search_task, cancel_flag,
                   search_count, last_query, flags, tasks, picker_alive, committed, origin>>

\* render with needs_search_update set, check_and_update_search dispatching
RenderDispatch ==
    LET query == to_lowercase(text_input.content)
        search_id == search_count
    IN /\ picker_alive
       /\ needs_search_update
       /\ ~query_unchanged(query, last_query)
       /\ search_count < MaxSearches
       /\ needs_search_update' = FALSE
       /\ last_query' = query
       /\ flags' = store(flags, cancel_flag, TRUE)
       /\ search_count' = fetch_add(search_count)
       /\ cancel_flag' = search_id + 1
       /\ tasks' = [tasks EXCEPT ![search_id] = [NoTask EXCEPT !.state = "spawned",
                                                               !.query = query,
                                                               !.cancel_flag = search_id + 1]]
       /\ search_task' = Some(search_id)
       /\ hist' = <<>>
       /\ UNCHANGED <<text_input, filtered_items, selected_index, picker_alive,
                      committed, origin>>

\* the closure on the background executor: one read of its flag, then the scan;
\* hist marks the fast exit
BackgroundSearch(i) ==
    LET cancelled == flags[tasks[i].cancel_flag]
    IN /\ tasks[i].state = "spawned"
       /\ tasks' = [tasks EXCEPT ![i] = [NoTask EXCEPT
                       !.state = "bg_done",
                       !.matches = search_matches(cancelled, all_items, tasks[i].query)]]
       /\ hist' = IF cancelled THEN <<[op |-> "background_search", ret |-> i]>> ELSE <<>>
       /\ UNCHANGED <<text_input, needs_search_update, filtered_items, selected_index,
                      search_task, cancel_flag, search_count, last_query, flags,
                      picker_alive, committed, origin>>

\* the background work of a search never completes
WorkerLost(i) ==
    /\ tasks[i].state = "spawned"
    /\ tasks' = [tasks EXCEPT ![i] = Finished("lost")]
    /\ hist' = <<>>
    /\ UNCHANGED <<text_input, needs_search_update, filtered_items, selected_index,
                   search_task, cancel_flag, search_count, last_query, flags,
                   picker_alive, committed, origin>>

\* the continuation after .await finds a newer search started and returns
Discard(i) ==
    /\ tasks[i].state = "bg_done"
    /\ is_superseded(i, search_count)
    /\ tasks' = [tasks EXCEPT ![i] = Finished("discarded")]
    /\ hist' = <<>>
    /\ UNCHANGED <<text_input, needs_search_update, filtered_items, selected_index,
                   search_task, cancel_flag, search_count, last_query, flags,
                   picker_alive, committed, origin>>

\* the continuation passes the staleness test and picker.update runs its closure;
\* hist keeps the index the closure found
Commit(i) ==
    /\ tasks[i].state = "bg_done"
    /\ ~is_superseded(i, search_count)
    /\ picker_alive
    /\ filtered_items' = commit_update(tasks[i].matches, selected_index).filtered_items
    /\ selected_index' = commit_update(tasks[i].matches, selected_index).selected_index
    /\ tasks' = [tasks EXCEPT ![i] = Finished("committed")]
    /\ committed' = Append(committed, i)
    /\ hist' = <<[op |-> "commit", ret |-> selected_index]>>
    /\ UNCHANGED <<text_input, needs_search_update, search_task, cancel_flag,
                   search_count, last_query, flags, picker_alive, origin>>

\* the continuation passes the staleness test and picker.update fails: the
\* entity is gone, and .ok() drops the error
UpdateFails(i) ==
    /\ tasks[i].state = "bg_done"
    /\ ~is_superseded(i, search_count)
    /\ ~picker_alive
    /\ tasks' = [tasks EXCEPT ![i] = Finished("update_failed")]
    /\ hist' = <<>>
    /\ UNCHANGED <<text_input, needs_search_update, filtered_items, selected_index,
                   search_task, cancel_flag, search_count, last_query, flags,
                   picker_alive, committed, origin>>

\* the PickerExample entity is released, and the task it holds with it
Teardown ==
    /\ picker_alive
    /\ picker_alive' = FALSE
    /\ hist' = <<>>
    /\ UNCHANGED <<text_input, needs_search_update, filtered_items, selected_index,
                   search_task, cancel_flag, search_count, last_query, flags, tasks,
                   committed, origin>>

Next ==
    \/ Type
    \/ Cancel
    \/ RenderUnchanged
    \/ RenderDispatch
    \/ \E i \in SearchIds : BackgroundSearch(i)
    \/ \E i \in SearchIds : Discard(i)
    \/ \E i \in SearchIds : Commit(i)

Spec == Init /\ [][Next]_vars

\* the program with a handler of the input that moves the selection only
SelectionNext ==
    \/ Next
    \/ SelectAll

SelectionSpec == Init /\ [][SelectionNext]_vars

\* the program with the losses of section 7: a worker lost, the owner torn down
LossNext ==
    \/ Next
    \/ \E i \in SearchIds : WorkerLost(i)
    \/ \E i \in SearchIds : UpdateFails(i)
    \/ Teardown

LossSpec == Init /\ [][LossNext]_vars

\* a list action of the picker while searches run
Navigate(index) ==
    /\ picker_alive
    /\ selected_index' = index
    /\ hist' = <<>>
    /\ UNCHANGED <<text_input, needs_search_update, filtered_items, search_task,
                   cancel_flag, search_count, last_query, flags, tasks, picker_alive,
                   committed, origin>>

SelectNext == Navigate(select_next(selected_index, filtered_items))

SelectPrev == Navigate(select_prev(selected_index, filtered_items))

\* confirm prints the item it finds and writes nothing
Confirm == Navigate(selected_index)

\* the program with the list actions of the picker
PickerNext ==
    \/ Next
    \/ SelectNext
    \/ SelectPrev
    \/ Confirm

PickerSpec == Init /\ [][PickerNext]_vars

\* the program scheduled fairly: a notified picker is rendered, the background
\* executor runs every closure it was given, and the foreground executor runs
\* every continuation whose closure has returned
Fairness ==
    /\ WF_vars(RenderUnchanged)
    /\ WF_vars(RenderDispatch)
    /\ \A i \in SearchIds :
          /\ WF_vars(BackgroundSearch(i))
          /\ WF_vars(Discard(i))
          /\ WF_vars(Commit(i))

FairSpec == PickerSpec /\ Fairness

-----------------------------------------------------------------------------
(* Properties of the search coordinator.                                    *)

\* the continuation of search i runs in this step
continues(i) == tasks[i].state = "bg_done" /\ tasks'[i].state # "bg_done"

\* C1: a search commits only while it is the most recently dispatched one
\* (search_id = counter - 1), a commit is the only thing that changes
\* filtered_items, and the continuation of a search that a newer dispatch has
\* superseded (search_id < counter - 1) always discards, whatever it read from
\* its cancellation flag, leaving filtered_items and selected_index alone.
C1_OnlyLatestCommits ==
    [][/\ \A i \in SearchIds :
            continues(i) =>
              /\ tasks'[i].state = "committed" =>
                    i = search_count - 1 /\ filtered_items' = tasks[i].matches
              /\ i < search_count - 1 =>
                    /\ tasks'[i].state = "discarded"
                    /\ UNCHANGED <<filtered_items, selected_index>>
       /\ filtered_items' # filtered_items =>
            \E i \in SearchIds :
                continues(i) /\ tasks'[i].state = "committed" /\ i = search_count - 1
      ]_vars

\* two searches in flight together: the older was discarded, the newer committed
C1_Witness ==
    /\ tasks[0].state = "discarded"
    /\ tasks[1].state = "committed"
    /\ committed = <<1>>

\* C2: the ids of the committed searches never decrease along the run, and once
\* the query "an" is stored every change of filtered_items installs [banana]
\* ([apple, banana] is never there), also when the result for "a" arrives later.
C2_CommitOrder ==
    /\ [](\A k \in 1..(Len(committed) - 1) : committed[k] <= committed[k + 1])
    /\ [](last_query = <<"a", "n">> => filtered_items # <<apple, banana>>)
    /\ [][(last_query' = <<"a", "n">> /\ filtered_items' # filtered_items)
             => filtered_items' = <<banana>>]_vars

\* "an" has committed [banana] while the result of the earlier search for "a"
\* (all three candidates contain "a") is still waiting for its continuation
C2_Witness ==
    /\ last_query = <<"a", "n">>
    /\ committed = <<1>>
    /\ filtered_items = <<banana>>
    /\ tasks[0].state = "bg_done"
    /\ tasks[0].matches = all_items

\* the positions of the candidates whose lowercase form has query as a substring
matching_indices(items, query) ==
    {j \in 1..Len(items) :
        \E k \in 0..(Len(items[j]) - Len(query)) :
            \A m \in 1..Len(query) : char_to_lowercase(items[j][k + m]) = query[m]}

\* result lists exactly the candidates at the matching positions, in order
is_stable_filter(result, items, query) ==
    LET idx == matching_indices(items, query)
    IN /\ Len(result) = Cardinality(idx)
       /\ \A j \in idx : result[1 + Cardinality({h \in idx : h < j})] = items[j]

\* C3: a background search that reads its flag unsignalled returns all_items
\* itself for the empty query and otherwise exactly the candidates whose
\* lowercase form contains the query, in their original order.
C3_SearchResult ==
    [][\A i \in SearchIds :
          (tasks[i].state = "spawned" /\ tasks'[i].state = "bg_done"
              /\ ~flags[tasks[i].cancel_flag])
          => /\ is_stable_filter(tasks'[i].matches, all_items, tasks[i].query)
             /\ tasks[i].query = <<>> => tasks'[i].matches = all_items
      ]_vars

\* a search returned a proper, non-empty part of the candidates
C3_Witness ==
    \E i \in SearchIds : tasks[i].state = "bg_done" /\ tasks[i].matches = <<banana>>

\* lowercase of the characters typed, written out
normalized(s) ==
    [i \in 1..Len(s) |-> IF s[i] = "N" THEN "n" ELSE IF s[i] = "A" THEN "a" ELSE s[i]]

\* C8: when the picker handles a change notification (render finds
\* needs_search_update set) and the lowercased content equals the stored query,
\* nothing of the coordinator changes: no flag is signalled, the counter, the
\* flag in use, the tasks, filtered_items, selected_index and the stored query
\* stay as they are.
C8_UnchangedQueryNoOp ==
    [][(needs_search_update /\ ~needs_search_update'
          /\ normalized(text_input.content) = last_query)
       => UNCHANGED <<flags, cancel_flag, search_count, search_task, tasks,
                      filtered_items, selected_index, last_query, committed>>
      ]_vars

\* a notification was handled as a no-op while the current search was in
\* flight, and that search is still current and unsignalled
C8_Witness ==
    /\ hist = <<[op |-> "check_and_update_search", ret |-> "unchanged"]>>
    /\ search_task # None
    /\ tasks[unwrap(search_task)].state \in {"spawned", "bg_done"}
    /\ ~flags[cancel_flag]
    /\ text_input.selected_range # Range(byte_len(text_input.content), byte_len(text_input.content))

\* C9: a search whose task handle has been dropped (overwritten by a newer
\* dispatch, or released with the picker) or whose background work is lost
\* never commits: no step taken by it changes filtered_items or selected_index.
C9_NoCommitAfterDrop ==
    [][\A i \in SearchIds :
          ((dropped(i) \/ tasks[i].state = "lost") /\ tasks'[i] # tasks[i])
          => /\ tasks'[i].state # "committed"
             /\ UNCHANGED <<filtered_items, selected_index, committed>>
      ]_vars

\* search 0 was replaced by search 1 and discarded; the picker was then torn
\* down and the update of search 1 failed
C9_Witness ==
    /\ tasks[0].state = "discarded"
    /\ tasks[1].state = "update_failed"
    /\ ~picker_alive

\* the searches dispatched so far
dispatched == {i \in SearchIds : tasks[i].state # "none"}

\* C14: search_count starts at 0 and changes only by +1, at a dispatch; the
\* search dispatched then gets the value before the increment as its id, so
\* the ids dispatched are exactly 0 .. search_count - 1, each once and in
\* order, and search_count is the number of searches dispatched.
C14_CounterAppendOnly ==
    /\ search_count = 0
    /\ [](/\ dispatched = 0..(search_count - 1)
          /\ Cardinality(dispatched) = search_count)
    /\ [][search_count' # search_count =>
            /\ search_count' = search_count + 1
            /\ tasks[search_count].state = "none"
            /\ tasks'[search_count].state = "spawned"
            /\ search_task' = Some(search_count)
            /\ \A i \in SearchIds \ {search_count} : tasks'[i] = tasks[i]
          ]_vars
    /\ [][\A i \in SearchIds :
            (tasks[i].state = "none" /\ tasks'[i].state # "none")
            => (i = search_count /\ search_count' = i + 1)
          ]_vars

\* two searches dispatched: ids 0 and 1, the counter at 2
C14_Witness ==
    /\ search_count = 2
    /\ tasks[0].state = "bg_done"
    /\ tasks[1].state = "spawned"
    /\ search_task = Some(1)

\* C15: the flag of search i is the cell allocated at its dispatch (cell
\* i + 1; cell 0 is the one made by the constructor).  A cell that is set is
\* never cleared; a dispatch sets the cell in use and then puts a fresh, unset
\* cell in use; and in every state the flag of search i is set exactly when a
\* search with a greater id has been dispatched, so the flag of the most
\* recently dispatched search is unset.
C15_FlagsWriteOnce ==
    /\ [](/\ cancel_flag = search_count
          /\ ~flags[cancel_flag]
          /\ \A i \in 0..(search_count - 1) : flags[i + 1] <=> (i < search_count - 1)
          /\ \A i \in SearchIds :
                tasks[i].state = "spawned" => tasks[i].cancel_flag = i + 1)
    /\ [][\A f \in DOMAIN flags : flags[f] => flags'[f]]_vars
    /\ [][search_count' # search_count =>
            /\ flags'[cancel_flag]
            /\ cancel_flag' # cancel_flag
            /\ ~flags[cancel_flag'] /\ ~flags'[cancel_flag']
            /\ tasks'[search_count].cancel_flag = cancel_flag'
          ]_vars

\* search 0 has not read its flag yet, and search 1 has been dispatched: the
\* flag of search 0 is set, the flag of search 1 is not
C15_Witness ==
    /\ search_count = 2
    /\ tasks[0].state = "spawned"
    /\ flags[tasks[0].cancel_flag]
    /\ tasks[1].state = "spawned"
    /\ ~flags[tasks[1].cancel_flag]

\* search i is the most recently dispatched one
latest(i) == i = search_count - 1

\* C16: the query of the most recently dispatched search is the stored query
\* and its flag is unset, so its closure never takes the fast exit; what it
\* returns, and what any commit writes to filtered_items, is the stable filter
\* of all_items by that query.  The empty list of a fast exit is never written.
C16_PlaceholderNeverCommitted ==
    /\ [](\A i \in SearchIds :
            /\ (tasks[i].state = "spawned" /\ latest(i)) =>
                  (tasks[i].query = last_query /\ ~flags[tasks[i].cancel_flag])
            /\ (tasks[i].state = "bg_done" /\ latest(i)) =>
                  is_stable_filter(tasks[i].matches, all_items, last_query))
    /\ [][\A i \in SearchIds :
            (continues(i) /\ tasks'[i].state = "committed")
            => /\ latest(i)
               /\ filtered_items' = tasks[i].matches
               /\ is_stable_filter(filtered_items', all_items, last_query)
          ]_vars
    /\ [][\A i \in SearchIds :
            (tasks[i].state = "spawned" /\ tasks'[i].state = "bg_done"
                /\ flags[tasks[i].cancel_flag])
            => (tasks'[i].matches = <<>> /\ ~latest(i))
          ]_vars

\* search 1 committed [banana]; search 0 then read its flag set and returned
\* the empty list, which waits for the continuation that will discard it
C16_Witness ==
    /\ hist = <<[op |-> "background_search", ret |-> 0]>>
    /\ tasks[0].state = "bg_done"
    /\ tasks[0].matches = <<>>
    /\ committed = <<1>>
    /\ filtered_items = <<banana>>

\* no search is in flight for the stored query
quiescent ==
    IF search_count = 0 THEN TRUE ELSE tasks[search_count - 1].state = "committed"

\* C18: whenever no search has been dispatched yet, or the most recently
\* dispatched search has committed, filtered_items is the stable filter of
\* all_items by the stored query (all of all_items for the empty query).
C18_QuiescentConsistency ==
    quiescent =>
        /\ is_stable_filter(filtered_items, all_items, last_query)
        /\ last_query = <<>> => filtered_items = all_items

\* search 1 committed [banana] for "n" while search 0 has not even run
C18_Witness ==
    /\ search_count = 2
    /\ tasks[1].state = "committed"
    /\ tasks[0].state = "spawned"
    /\ last_query = <<"n">>
    /\ filtered_items = <<banana>>

\* the content of the input stops changing
changes_stop == <>[][text_input' = text_input]_vars

\* the most recent search has committed and the list is the filter by its query
converged == quiescent /\ is_stable_filter(filtered_items, all_items, last_query)

\* C17 as stated: if the changes of the query stop, then from some point on
\* the most recently dispatched search has committed, filtered_items is the
\* stable filter of all_items by the stored query and selected_index is 0.
C17_ConvergenceIndexStaysZero ==
    changes_stop => <>[](converged /\ selected_index = 0)

\* C17 as amended: if the changes of the query stop, then from some point on
\* the most recently dispatched search has committed and filtered_items is the
\* stable filter of all_items by the stored query; the commit sets
\* selected_index to 0, and afterwards only select_next and select_prev move it.
C17_Convergence ==
    /\ changes_stop => <>[]converged
    /\ [][committed' # committed => selected_index' = 0]_vars
    /\ [][(quiescent /\ quiescent' /\ selected_index' # selected_index)
            => /\ filtered_items' = filtered_items
               /\ selected_index' \in {select_next(selected_index, filtered_items),
                                       select_prev(selected_index, filtered_items)}
          ]_vars

\* search 1, the latest, has committed the three candidates for "a", nothing
\* is pending, and the selection has since been moved to the third of them
C17_Witness ==
    /\ committed = <<1>>
    /\ search_count = 2
    /\ last_query = <<"a">>
    /\ text_input.content = <<"a">>
    /\ ~needs_search_update
    /\ filtered_items = all_items
    /\ selected_index = 2

\* the last step was a commit, which found the index at k
committed_over(k) == hist = <<[op |-> "commit", ret |-> k]>>

\* C11: every step that replaces filtered_items or commits a result is the
\* continuation of one search writing its matches and setting selected_index
\* to 0 in that same step, so right after a commit selected_index is 0
\* whatever it was for the previous result.
C11_CommitResetsIndex ==
    /\ [][(filtered_items' # filtered_items \/ committed' # committed)
            => /\ selected_index' = 0
               /\ \E i \in SearchIds :
                     /\ continues(i)
                     /\ tasks'[i].state = "committed"
                     /\ filtered_items' = tasks[i].matches
          ]_vars
    /\ [](\A k \in 0..Len(all_items) : committed_over(k) => selected_index = 0)

\* [banana] was committed over the full list while the third item was selected
C11_Witness ==
    /\ committed_over(2)
    /\ filtered_items = <<banana>>
    /\ selected_index = 0

\* C19: selected_index is below Len(filtered_items) whenever the list is not
\* empty, and 0 whenever it is empty, after any sequence of select_next,
\* select_prev, confirm and commits.
C19_IndexInRange ==
    /\ selected_index >= 0
    /\ filtered_items # <<>> => selected_index < Len(filtered_items)
    /\ filtered_items = <<>> => selected_index = 0

\* a commit emptied the list while its second item was selected
C19_Witness ==
    /\ committed_over(1)
    /\ filtered_items = <<>>
    /\ selected_index = 0

-----------------------------------------------------------------------------
(* The text buffer on its own: every handler of TextInput, from the empty   *)
(* buffer, in any order.  The picker only records that it was notified.     *)

\* the strings of at most n characters of A
Strings(A, n) == UNION {[1..k -> A] : k \in 0..n}

\* what the line-shaping collaborator answers for a mouse position: an index
\* of the content, taken here to fall on a grapheme-cluster boundary
MouseIndices(t) == grapheme_boundaries(t.content)

\* the UTF-16 ranges the input method passes: between two grapheme-cluster
\* boundaries of the content
Utf16Ranges(s) ==
    {range_to_utf16(s, Range(a, b)) : a \in grapheme_boundaries(s),
                                      b \in grapheme_boundaries(s)}
        \cap {r \in [start : 0..(2 * Len(s)), end : 0..(2 * Len(s))] : r.start <= r.end}

\* a TextInput handler that ends in cx.notify()
Edit(t) ==
    /\ Len(t.content) <= MaxLen
    /\ text_input' = t
    /\ needs_search_update' = TRUE
    /\ UNCHANGED <<filtered_items, selected_index, search_task, cancel_flag, search_count,
                   last_query, flags, tasks, picker_alive, committed, hist, origin>>

EditLeft == Edit(left(text_input))

EditRight == Edit(right(text_input))

EditSelectAll == Edit(select_all(text_input))

EditBackspace == can_replace(text_input, None) /\ Edit(backspace(text_input))

EditDelete == can_replace(text_input, None) /\ Edit(delete(text_input))

EditMouseDown ==
    \E shift \in BOOLEAN, index \in MouseIndices(text_input) :
        Edit(on_mouse_down(text_input, shift, index))

EditMouseMove ==
    \E index \in MouseIndices(text_input) :
        text_input.is_selecting /\ Edit(on_mouse_move(text_input, index))

\* on_mouse_up does not notify
EditMouseUp ==
    /\ text_input' = on_mouse_up(text_input)
    /\ UNCHANGED <<picker_vars, hist, origin>>

\* typed or composed text replacing the selection or a range the input method names
EditReplaceText ==
    \E range_utf16 \in {None} \cup {Some(r) : r \in Utf16Ranges(text_input.content)},
       ch \in Alphabet :
        /\ can_replace(text_input, range_utf16)
        /\ Edit(replace_text_in_range(text_input, range_utf16, <<ch>>))

EditNext ==
    \/ EditLeft
    \/ EditRight
    \/ EditSelectAll
    \/ EditBackspace
    \/ EditDelete
    \/ EditMouseDown
    \/ EditMouseMove
    \/ EditMouseUp
    \/ EditReplaceText

EditSpec == Init /\ [][EditNext]_vars

\* C4: after any sequence of left, right, select_all, select_to (by the mouse),
\* backspace, delete and replace_text_in_range from the empty buffer, the
\* selection satisfies 0 <= start <= end <= len(content) and both bounds are
\* grapheme-cluster boundaries of content.
C4_SelectionInvariant ==
    /\ 0 <= text_input.selected_range.start
    /\ text_input.selected_range.start <= text_input.selected_range.end
    /\ text_input.selected_range.end <= byte_len(text_input.content)
    /\ text_input.selected_range.start \in grapheme_boundaries(text_input.content)
    /\ text_input.selected_range.end \in grapheme_boundaries(text_input.content)

-----------------------------------------------------------------------------
(* Calls on a text buffer in any state the handlers can leave it in with    *)
(* the selection between two grapheme-cluster boundaries.  origin keeps     *)
(* the state the calls start from, hist the calls made.                     *)

\* the states of a TextInput over the characters A whose selection lies
\* between two grapheme-cluster boundaries of its content
TextStates(A) ==
    UNION {{[content |-> s, selected_range |-> Range(p[1], p[2]),
             selection_reversed |-> r, is_selecting |-> FALSE] :
                p \in {q \in grapheme_boundaries(s) \X grapheme_boundaries(s) : q[1] <= q[2]},
                r \in BOOLEAN} :
           s \in Strings(A, MaxLen)}

\* a handler that ends in cx.notify(), recorded in hist
Call(record, t) ==
    /\ text_input' = t
    /\ needs_search_update' = TRUE
    /\ hist' = Append(hist, record)
    /\ UNCHANGED <<filtered_items, selected_index, search_task, cancel_flag, search_count,
                   last_query, flags, tasks, picker_alive, committed, origin>>

\* the names of the calls recorded
ops(h) == [k \in 1..Len(h) |-> h[k].op]

MotionInit ==
    /\ text_input \in TextStates(Alphabet)
    /\ PickerInit
    /\ hist = <<>>
    /\ origin = text_input

MotionLeft == Len(hist) < MaxOps /\ Call([op |-> "left"], left(text_input))

MotionRight == Len(hist) < MaxOps /\ Call([op |-> "right"], right(text_input))

MotionNext == MotionLeft \/ MotionRight

MotionSpec == MotionInit /\ [][MotionNext]_vars

\* the caret was collapsed at byte offset b when the recorded calls started
started_collapsed_at(b) == origin.selected_range = Range(b, b)

\* C7 as stated: from the caret collapsed at any grapheme-cluster boundary b,
\* b = 0 and b = len(content) included, left then right leaves the caret at b.
C7_LeftRightAnyBoundary ==
    \A b \in grapheme_boundaries(text_input.content) :
        (ops(hist) = <<"left", "right">> /\ started_collapsed_at(b))
        => text_input.selected_range = Range(b, b)

\* C7 as amended: from the caret collapsed at a grapheme-cluster boundary
\* b > 0 (b = len(content) included), or in the empty content, left then right
\* leaves the caret at b and the content as it was; from b = 0 in a non-empty
\* content the caret ends at the first boundary after 0.
C7_LeftRightRoundTrip ==
    \A b \in grapheme_boundaries(origin.content) :
        (ops(hist) = <<"left", "right">> /\ started_collapsed_at(b))
        => /\ text_input.content = origin.content
           /\ (b > 0 \/ origin.content = <<>>) => text_input.selected_range = Range(b, b)
           /\ (b = 0 /\ origin.content # <<>>) =>
                 /\ text_input.selected_range.start = text_input.selected_range.end
                 /\ text_input.selected_range.end > 0
                 /\ text_input.selected_range.end \in grapheme_boundaries(origin.content)
                 /\ \A x \in grapheme_boundaries(origin.content) :
                        x > 0 => text_input.selected_range.end <= x

\* left then right from the end of an emoji followed by its modifier (one
\* cluster of two characters, eight bytes): across the whole cluster and back
C7_Witness ==
    /\ ops(hist) = <<"left", "right">>
    /\ origin.content = <<"EMOJI", "TONE">>
    /\ started_collapsed_at(8)
    /\ text_input.selected_range = Range(8, 8)

-----------------------------------------------------------------------------
(* One call of the input method on a text buffer.                           *)

\* the characters of the contents the input method acts on
ImeAlphabet == {"a", "ACUTE", "EMOJI"}

\* the texts the input method inserts
ImeTexts == {<<>>, <<"a">>, <<"EMOJI">>, <<"a", "ACUTE">>}

\* the UTF-16 ranges inside a text of n code units
Utf16Within(n) == {r \in [start : 0..n, end : 0..n] : r.start <= r.end}

ImeInit ==
    /\ text_input \in TextStates(ImeAlphabet)
    /\ PickerInit
    /\ hist = <<>>
    /\ origin = text_input

ImeReplaceText ==
    \E range_utf16 \in {None} \cup {Some(r) : r \in Utf16Ranges(text_input.content)},
       new_text \in ImeTexts :
        /\ hist = <<>>
        /\ can_replace(text_input, range_utf16)
        /\ Call([op |-> "replace_text_in_range", range_utf16 |-> range_utf16,
                 new_text |-> new_text, new_selected_range_utf16 |-> None],
                replace_text_in_range(text_input, range_utf16, new_text))

ImeReplaceAndMark ==
    \E range_utf16 \in {None} \cup {Some(r) : r \in Utf16Ranges(text_input.content)},
       new_text \in ImeTexts :
        \E new_selected_range_utf16 \in
              {None} \cup {Some(r) : r \in Utf16Within(offset_to_utf16(new_text, byte_len(new_text)))} :
            /\ hist = <<>>
            /\ can_replace(text_input, range_utf16)
            /\ Call([op |-> "replace_and_mark_text_in_range", range_utf16 |-> range_utf16,
                     new_text |-> new_text,
                     new_selected_range_utf16 |-> new_selected_range_utf16],
                    replace_and_mark_text_in_range(text_input, range_utf16, new_text,
                                                   new_selected_range_utf16))

ImeNext == ImeReplaceText \/ ImeReplaceAndMark

ImeSpec == ImeInit /\ [][ImeNext]_vars

\* the byte range of the origin that the recorded call replaced
call_range(call) ==
    IF call.range_utf16 = None THEN origin.selected_range
    ELSE Range(offset_from_utf16(origin.content, unwrap(call.range_utf16).start),
               offset_from_utf16(origin.content, unwrap(call.range_utf16).end))

\* C5: after replace_and_mark(range, new_text, new_selection) with
\* new_selection given, selected_range is new_selection (in bytes of new_text)
\* with both bounds offset by range.start, and 0 <= start <= end <= len(content)
\* of the new content; with new_selection absent the caret is collapsed right
\* after the inserted text.
C5_ReplaceAndMarkSelection ==
    (hist # <<>> /\ hist[1].op = "replace_and_mark_text_in_range") =>
        LET call == hist[1]
            range == call_range(call)
            after == range.start + byte_len(call.new_text)
            sel == text_input.selected_range
        IN IF call.new_selected_range_utf16 = None
           THEN sel = Range(after, after)
           ELSE LET given == unwrap(call.new_selected_range_utf16)
                IN /\ sel.start = range.start + offset_from_utf16(call.new_text, given.start)
                   /\ sel.end = range.start + offset_from_utf16(call.new_text, given.end)
                   /\ 0 <= sel.start
                   /\ sel.start <= sel.end
                   /\ sel.end <= byte_len(text_input.content)

-----------------------------------------------------------------------------
(* The offset translations applied to an offset and to its translation.     *)

Utf16Init ==
    /\ text_input \in {[TextInput_new EXCEPT !.content = s] : s \in Strings(Alphabet, MaxLen)}
    /\ PickerInit
    /\ hist = <<>>
    /\ origin = text_input

\* offset_to_utf16 of some byte offset of the content
ToUtf16 ==
    \E x \in 0..byte_len(text_input.content) :
        /\ hist = <<>>
        /\ hist' = <<[op |-> "offset_to_utf16", arg |-> x,
                      ret |-> offset_to_utf16(text_input.content, x)]>>
        /\ UNCHANGED <<text_input, picker_vars, origin>>

\* offset_from_utf16 of what offset_to_utf16 returned
FromUtf16 ==
    /\ Len(hist) = 1
    /\ hist' = Append(hist, [op |-> "offset_from_utf16", arg |-> hist[1].ret,
                             ret |-> offset_from_utf16(text_input.content, hist[1].ret)])
    /\ UNCHANGED <<text_input, picker_vars, origin>>

Utf16Next == ToUtf16 \/ FromUtf16

Utf16Spec == Utf16Init /\ [][Utf16Next]_vars

\* C6: for every content and every byte offset x on a character boundary of
\* it, offset_from_utf16(offset_to_utf16(x)) = x.
C6_Utf16RoundTrip ==
    (Len(hist) = 2 /\ is_char_boundary(text_input.content, hist[1].arg))
        => hist[2].ret = hist[1].arg

\* the round trip of the end offset of a 3-byte character followed by a
\* 4-byte one (1 and 2 UTF-16 code units)
C6_Witness ==
    /\ Len(hist) = 2
    /\ text_input.content = <<"EURO", "EMOJI">>
    /\ hist[1] = [op |-> "offset_to_utf16", arg |-> 7, ret |-> 3]
    /\ hist[2].ret = 7

-----------------------------------------------------------------------------
(* Navigation in a result list.                                             *)

\* queries whose results have 3, 2, 1 and 0 candidates
NavQueries == {<<>>, <<"e">>, <<"n">>, <<"n", "n">>}

NavInit ==
    /\ text_input = TextInput_new
    /\ CoordinatorInit
    /\ filtered_items \in {search_matches(FALSE, all_items, q) : q \in NavQueries}
    /\ selected_index \in {i \in 0..Len(all_items) : i = 0 \/ i < Len(filtered_items)}
    /\ hist = <<>>
    /\ origin = selected_index

\* a list action of the picker, recorded in hist
NavCall(record, index) ==
    /\ Len(hist) < MaxNavOps
    /\ selected_index' = index
    /\ hist' = Append(hist, record)
    /\ UNCHANGED <<text_input, needs_search_update, filtered_items, search_task,
                   cancel_flag, search_count, last_query, flags, tasks, picker_alive,
                   committed, origin>>

NavSelectNext ==
    NavCall([op |-> "select_next", ret |-> None], select_next(selected_index, filtered_items))

NavSelectPrev ==
    NavCall([op |-> "select_prev", ret |-> None], select_prev(selected_index, filtered_items))

NavConfirm ==
    NavCall([op |-> "confirm", ret |-> confirm(selected_index, filtered_items)], selected_index)

NavNext == NavSelectNext \/ NavSelectPrev \/ NavConfirm

NavSpec == NavInit /\ [][NavNext]_vars

\* C10: for a list of n > 0 items and the index i the calls started from:
\* next() gives (i + 1) mod n; prev() gives n - 1 from 0 and i - 1 otherwise;
\* n next() in a row, next() then prev(), and prev() then next() give i back.
C10_WrapAround ==
    LET n == Len(filtered_items)
        i == origin
    IN n > 0 =>
        /\ ops(hist) = <<"select_next">> => selected_index = (i + 1) % n
        /\ ops(hist) = <<"select_prev">> => selected_index = (IF i = 0 THEN n - 1 ELSE i - 1)
        /\ ops(hist) = [k \in 1..n |-> "select_next"] => selected_index = i
        /\ ops(hist) = <<"select_next", "select_prev">> => selected_index = i
        /\ ops(hist) = <<"select_prev", "select_next">> => selected_index = i

\* three next() from the middle of the three candidates: wrapped and back
C10_Witness ==
    /\ filtered_items = all_items
    /\ origin = 1
    /\ ops(hist) = <<"select_next", "select_next", "select_next">>
    /\ selected_index = 1

\* the call recorded by this step
this_call == hist'[Len(hist')]

\* C12: on an empty filtered_items, select_next, select_prev and confirm leave
\* selected_index and filtered_items as they are and confirm yields nothing; on
\* a non-empty list confirm yields the item at selected_index and changes
\* nothing of the picker or of its input.
C12_EmptyListNoOp ==
    [][/\ filtered_items = <<>> =>
            /\ UNCHANGED <<filtered_items, selected_index>>
            /\ this_call.op = "confirm" => this_call.ret = None
       /\ (filtered_items # <<>> /\ this_call.op = "confirm") =>
            /\ this_call.ret = Some(filtered_items[selected_index + 1])
            /\ UNCHANGED <<text_input, picker_vars>>
      ]_vars

\* next, prev and confirm on the empty result of a query no candidate matches
C12_Witness ==
    /\ filtered_items = <<>>
    /\ ops(hist) = <<"select_next", "select_prev", "confirm">>
    /\ hist[3].ret = None
    /\ selected_index = 0
    /\ origin = 0

-----------------------------------------------------------------------------
(* One call with an offset past the end of the content.                     *)

ClampAlphabet == {"a", "EMOJI"}

\* the offsets past n, the length of the content in the unit of the call
Beyond(n) == (n + 1)..(n + MaxBeyond)

\* the length of a content in UTF-16 code units
utf16_len(s) == offset_to_utf16(s, byte_len(s))

ClampInit ==
    /\ text_input \in TextStates(ClampAlphabet)
    /\ PickerInit
    /\ hist = <<>>
    /\ origin = text_input

ClampMoveTo ==
    \E offset \in Beyond(byte_len(text_input.content)) :
        /\ hist = <<>>
        /\ Call([op |-> "move_to", arg |-> offset, ret |-> None], move_to(text_input, offset))

ClampSelectTo ==
    \E offset \in Beyond(byte_len(text_input.content)) :
        /\ hist = <<>>
        /\ Call([op |-> "select_to", arg |-> offset, ret |-> None],
                select_to(text_input, offset))

\* the translations read the content and write nothing
ClampFromUtf16 ==
    \E offset \in Beyond(utf16_len(text_input.content)) :
        /\ hist = <<>>
        /\ hist' = <<[op |-> "offset_from_utf16", arg |-> offset,
                      ret |-> Some(offset_from_utf16(text_input.content, offset))]>>
        /\ UNCHANGED <<text_input, picker_vars, origin>>

ClampToUtf16 ==
    \E offset \in Beyond(byte_len(text_input.content)) :
        /\ hist = <<>>
        /\ hist' = <<[op |-> "offset_to_utf16", arg |-> offset,
                      ret |-> Some(offset_to_utf16(text_input.content, offset))]>>
        /\ UNCHANGED <<text_input, picker_vars, origin>>

\* a replacement whose range ends, or starts and ends, past the content
ClampReplaceText ==
    \E e \in Beyond(utf16_len(text_input.content)), new_text \in {<<>>, <<"a">>} :
        \E b \in 0..e :
            /\ hist = <<>>
            /\ can_replace(text_input, Some(Range(b, e)))
            /\ Call([op |-> "replace_text_in_range", arg |-> Range(b, e), ret |-> None],
                    replace_text_in_range(text_input, Some(Range(b, e)), new_text))

ClampNext ==
    \/ ClampMoveTo
    \/ ClampSelectTo
    \/ ClampFromUtf16
    \/ ClampToUtf16
    \/ ClampReplaceText

ClampSpec == ClampInit /\ [][ClampNext]_vars

\* C13: after a caret move, a selection extension, an offset translation or a
\* range replacement given an offset past the end of the content, the bounds
\* of the selection are within [0, len(content)] and a translated offset is
\* within the length of the content in the unit translated to.
C13_OutOfRangeClamped ==
    hist # <<>> =>
        /\ 0 <= text_input.selected_range.start
        /\ text_input.selected_range.start <= byte_len(text_input.content)
        /\ 0 <= text_input.selected_range.end
        /\ text_input.selected_range.end <= byte_len(text_input.content)
        /\ hist[1].op = "offset_from_utf16" =>
              unwrap(hist[1].ret) <= byte_len(text_input.content)
        /\ hist[1].op = "offset_to_utf16" =>
              unwrap(hist[1].ret) <= utf16_len(text_input.content)

-----------------------------------------------------------------------------
(* One selection extension on a text buffer in any state.                   *)

ExtendSelection ==
    \E offset \in 0..byte_len(text_input.content) :
        /\ hist = <<>>
        /\ Call([op |-> "select_to", arg |-> offset], select_to(text_input, offset))

SelectToSpec == MotionInit /\ [][ExtendSelection]_vars

\* the end of the selection that select_to leaves in place
anchor_offset(t) ==
    IF t.selection_reversed THEN t.selected_range.end ELSE t.selected_range.start

\* offset lies beyond the anchor, on the side away from the active end
crosses_anchor(t, offset) ==
    IF t.selection_reversed THEN offset > anchor_offset(t) ELSE offset < anchor_offset(t)

\* C20: select_to(offset) with 0 <= offset <= len(content) leaves the caret
\* (cursor_offset) at offset and the anchor where it was, keeps start <= end,
\* flips selection_reversed exactly when offset strictly crosses the anchor,
\* and leaves the content as it was.
C20_SelectToMovesActiveEnd ==
    [][LET offset == this_call.arg
       IN /\ cursor_offset(text_input') = offset
          /\ anchor_offset(text_input') = anchor_offset(text_input)
          /\ text_input'.selected_range.start <= text_input'.selected_range.end
          /\ (text_input'.selection_reversed # text_input.selection_reversed)
                <=> crosses_anchor(text_input, offset)
          /\ text_input'.content = text_input.content
      ]_vars

\* the selection 1..2 with the caret at its end, extended to 0: the caret
\* crossed the anchor at 1, the selection is 0..1 and reversed
C20_Witness ==
    /\ origin = [content |-> <<"a", "n">>, selected_range |-> Range(1, 2),
                 selection_reversed |-> FALSE, is_selecting |-> FALSE]
    /\ hist = <<[op |-> "select_to", arg |-> 0]>>
    /\ text_input.selected_range = Range(0, 1)
    /\ text_input.selection_reversed

-----------------------------------------------------------------------------
(* One editing call on a text buffer in any state.                          *)

\* the character boundaries of s
char_boundaries(s) == {offset_of(s, k) : k \in 0..Len(s)}

\* the states of a TextInput over the characters A whose selection lies
\* between two character boundaries of its content: the handlers leave the
\* caret inside a cluster when text is typed in front of a combining character
CharStates(A) ==
    UNION {{[content |-> s, selected_range |-> Range(p[1], p[2]),
             selection_reversed |-> r, is_selecting |-> FALSE] :
                p \in {q \in char_boundaries(s) \X char_boundaries(s) : q[1] <= q[2]},
                r \in BOOLEAN} :
           s \in Strings(A, MaxLen)}

CallInit ==
    /\ text_input \in CharStates(ImeAlphabet)
    /\ PickerInit
    /\ hist = <<>>
    /\ origin = text_input

CallLeft ==
    /\ hist = <<>>
    /\ Call([op |-> "left"], left(text_input))

CallRight ==
    /\ hist = <<>>
    /\ Call([op |-> "right"], right(text_input))

CallBackspace ==
    /\ hist = <<>>
    /\ can_replace(text_input, None)
    /\ Call([op |-> "backspace"], backspace(text_input))

CallDelete ==
    /\ hist = <<>>
    /\ can_replace(text_input, None)
    /\ Call([op |-> "delete"], delete(text_input))

CallSelectAll ==
    /\ hist = <<>>
    /\ Call([op |-> "select_all"], select_all(text_input))

\* the record keeps the arguments and the statements executed
CallReplaceText ==
    \E range_utf16 \in {None} \cup {Some(r) : r \in Utf16Ranges(text_input.content)},
       new_text \in ImeTexts :
        /\ hist = <<>>
        /\ can_replace(text_input, range_utf16)
        /\ Call([op |-> "replace_text_in_range", range_utf16 |-> range_utf16,
                 new_text |-> new_text,
                 effects |-> replace_text_in_range_effects(text_input, range_utf16, new_text)],
                replace_text_in_range(text_input, range_utf16, new_text))

CallNext ==
    \/ CallLeft
    \/ CallRight
    \/ CallBackspace
    \/ CallDelete
    \/ CallSelectAll
    \/ CallReplaceText

CallSpec == CallInit /\ [][CallNext]_vars

\* the call recorded was op
called(op) == hist # <<>> /\ hist[1].op = op

\* content with the bytes a..b taken out
without(s, a, b) == str_slice(s, 0, a) \o str_slice(s, b, byte_len(s))

\* the grapheme-cluster boundary next to c on either side (c itself at the
\* start and at the end of the content)
boundary_before(s, c) ==
    IF c = 0 THEN 0 ELSE Max({b \in grapheme_boundaries(s) : b < c})
boundary_after(s, c) ==
    IF c = byte_len(s) THEN c ELSE Min({b \in grapheme_boundaries(s) : b > c})

\* the bytes a..b of s are exactly one grapheme cluster
one_cluster(s, a, b) ==
    /\ a < b
    /\ a \in grapheme_boundaries(s)
    /\ b \in grapheme_boundaries(s)
    /\ \A x \in grapheme_boundaries(s) : ~(a < x /\ x < b)

notifications(effects) == {k \in 1..Len(effects) : effects[k].effect = "notify"}

\* C22: replace_text_in_range(range, new_text), range being the selection when
\* none is given, leaves content = old[0..range.start] + new_text +
\* old[range.end..] and the selection empty at range.start + len(new_text); it
\* notifies exactly once, after both writes, so what an observer is told of has
\* the new content together with the new selection.
C22_ReplaceSplices ==
    called("replace_text_in_range") =>
        LET call == hist[1]
            s == origin.content
            range == call_range(call)
            at == range.start + byte_len(call.new_text)
        IN /\ text_input.content =
                 str_slice(s, 0, range.start) \o call.new_text
                     \o str_slice(s, range.end, byte_len(s))
           /\ text_input.selected_range = Range(at, at)
           /\ Cardinality(notifications(call.effects)) = 1
           /\ \A k \in notifications(call.effects) :
                 /\ call.effects[k].fields = text_input
                 /\ \A j \in 1..Len(call.effects) :
                       call.effects[j].effect = "write" => j < k
           /\ needs_search_update

\* "a" selected in front of an emoji and replaced by "a" with an accent
C22_Witness ==
    /\ called("replace_text_in_range")
    /\ origin.content = <<"a", "EMOJI">>
    /\ origin.selected_range = Range(0, 1)
    /\ hist[1].range_utf16 = None
    /\ hist[1].new_text = <<"a", "ACUTE">>
    /\ text_input.content = <<"a", "ACUTE", "EMOJI">>
    /\ text_input.selected_range = Range(3, 3)

\* C23: select_all, from any selection and either value of
\* selection_reversed, leaves selected_range = 0..len(content) with the caret
\* (cursor_offset) at len(content), and the content as it was.
C23_SelectAll ==
    called("select_all") =>
        /\ text_input.selected_range = Range(0, byte_len(origin.content))
        /\ cursor_offset(text_input) = byte_len(origin.content)
        /\ text_input.content = origin.content

\* select_all from a reversed selection in the middle of the content
C23_Witness ==
    /\ called("select_all")
    /\ origin = [content |-> <<"a", "EMOJI">>, selected_range |-> Range(1, 5),
                 selection_reversed |-> TRUE, is_selecting |-> FALSE]
    /\ text_input.selected_range = Range(0, 5)
    /\ ~text_input.selection_reversed

\* C24: from a non-empty selection s..e, left leaves the selection empty at s
\* and right empty at e, whatever selection_reversed is; from an empty
\* selection at c, left leaves it empty at the greatest grapheme-cluster
\* boundary below c (at 0 when c = 0) and right at the least one above c (at
\* len(content) when c = len(content)), a cluster of several characters being
\* crossed in one step; the content is as it was.
C24_LeftRight ==
    LET s == origin.content
        sel == origin.selected_range
        c == sel.start
    IN /\ (called("left") \/ called("right")) => text_input.content = s
       /\ (called("left") /\ sel.start < sel.end) =>
             text_input.selected_range = Range(sel.start, sel.start)
       /\ (called("right") /\ sel.start < sel.end) =>
             text_input.selected_range = Range(sel.end, sel.end)
       /\ (called("left") /\ sel.start = sel.end) =>
             /\ text_input.selected_range = Range(boundary_before(s, c), boundary_before(s, c))
             /\ c = 0 => text_input.selected_range = Range(0, 0)
             /\ boundary_before(s, c) \in grapheme_boundaries(s)
       /\ (called("right") /\ sel.start = sel.end) =>
             /\ text_input.selected_range = Range(boundary_after(s, c), boundary_after(s, c))
             /\ c = byte_len(s) => text_input.selected_range = Range(c, c)
             /\ boundary_after(s, c) \in grapheme_boundaries(s)

\* left from behind "a" with a combining accent: the caret crosses the two
\* characters of the cluster in one step
C24_Witness ==
    /\ called("left")
    /\ origin.content = <<"a", "ACUTE">>
    /\ origin.selected_range = Range(3, 3)
    /\ origin.selection_reversed
    /\ text_input.selected_range = Range(0, 0)
    /\ text_input.content = <<"a", "ACUTE">>

=============================================================================
